---------------------------- MODULE Spec2Model ----------------------------
(***************************************************************************)
(* The Rigol DS1102 oscilloscope driver of RigolInstruments.py             *)
(* (class RigolDS1102 over the usbtmc transport): the configuration        *)
(* queries, the sample-count and division-count tables, and the waveform   *)
(* read readWaveform with its stop / read / resume sequence.               *)
(*                                                                         *)
(* Units.  A time/division is held in nanoseconds (the source holds        *)
(* seconds as a float: 100e-6 is 100000 here).  A division count is held   *)
(* doubled (the source's 52.5 is 105 here), so that every table value is   *)
(* an integer.  An array is held by its length, and a trace also by one    *)
(* of its samples.  A voltage is held in millivolts, a decoded voltage     *)
(* multiplied by 25 (the source divides by the 25 codes of a division).    *)
(* The module GenerateArb.py's 14-bit quantizer V2b / b2V is modelled on    *)
(* fractions k/Denominator.                                                *)
(***************************************************************************)
EXTENDS Integers, Sequences, FiniteSets, TLC

VARIABLES
    resource,      \* the instrument behind the transport: what it replies
    self,          \* the RigolDS1102 object's attributes
    pc,            \* position of the caller inside readWaveform
    channel,       \* readWaveform's argument, then its local 'channel'
    bothChannels,  \* readWaveform's local
    stopping,      \* readWaveform's argument
    tData,         \* len(tData), the time vector
    data,          \* len(data), the first trace read
    data2,         \* len(data2), the channel-2 trace of a 'BOTH' read
    log,           \* transport operations completed during the current call
    err,           \* the exception the current call raised ("" if none)
    raisedAt,      \* the statement of readWaveform that raised
    waveData,      \* shape of the array readWaveform returned
    caught,        \* the exception an except clause of the call swallowed
    nDevs,         \* getTimeVec's local nDevs (doubled)
    timeVec,       \* getTimeVec's local timeVec, as start, step and offset
    rawdata,       \* one sample byte of each trace read, at a common index
    vertical,      \* the replies to the :CHANn:OFFS? and :CHANn:SCAL? queries
    Vdata,         \* the decoded sample of each voltage column of waveData
    display,       \* the display state of the scope's two channels
    arb,           \* GenerateArb: a voltage and its quantized value
    gen,           \* the two DG1032 generators: a waveform and its uploads
    wave,          \* GenerateArb: the array 'wave' (a step not held is 0.0)
    waveCall,      \* GenerateArb: the last call that wrote into 'wave'
    wm             \* Wavemeter.py: the logging loop and its serial links

\* The variables of GenerateArb.py, of the generator classes and of
\* Wavemeter.py, which RigolDS1102 never touches.
offScope == <<arb, gen, wave, waveCall, wm>>

frame == <<channel, bothChannels, stopping, tData, data, data2, log, err,
           raisedAt, waveData, caught, nDevs, timeVec, rawdata, vertical,
           Vdata, display>>

vars == <<resource, self, pc, frame, offScope>>

\* What V2b and b2V never touch, what the generators never touch, what the
\* functions writing into 'wave' never touch, and what Wavemeter.py never
\* touches.
offArb == <<resource, self, pc, frame, gen, wave, waveCall, wm>>

offGen == <<resource, self, pc, frame, arb, wave, waveCall, wm>>

offWave == <<resource, self, pc, frame, arb, gen, wm>>

offWm == <<resource, self, pc, frame, arb, gen, wave, waveCall>>

---------------------------------------------------------------------------
(* Values *)

\* An attribute that was never assigned, a local that was never bound.
Unset == -1

\* How many bytes a waveform read may fall short of the requested length.
MaxShort == 1

\* What ':WAV:POINTS:MODE?' and ':ACQ:MEMDEPTH?' can reply.
AcqModes == {"NORMAL", "RAW", "MAXIMUM"}
MemDepths == {"NORMAL", "LONG"}

\* Replies to ':TIM:SCAL?' and the float each one parses to, in nanoseconds.
TScaleReplies == {"1.000e-07", "1.000e-04", "3.000e-03", "5.000e-01"}

float(reply) ==
    CASE reply = "1.000e-07" -> 100
      [] reply = "1.000e-04" -> 100000
      [] reply = "3.000e-03" -> 3000000
      [] reply = "5.000e-01" -> 500000000
      [] reply = "0.000e+00" -> 0

TOffsReplies == {"1.000e-04"}

\* Values setNumChannels is called with.
ChannelCounts == {0, 1, 2}

\* Arguments of readWaveform.
ChannelArgs == {"1", "2", "BOTH"}

---------------------------------------------------------------------------
(* The usbtmc transport.  A context c carries the object's attributes, the *)
(* log of completed transport operations, the count n of operations begun  *)
(* in the current statement, the pending exception and the value returned. *)
(* The f-th transport operation of a statement fails (f = 0: none does).   *)

NoTimeVec == [start |-> 0, step |-> 0, unitNum |-> 0, unitDen |-> 0,
              offs |-> 0]

Ctx(s, l) == [self |-> s, log |-> l, n |-> 0, err |-> "", val |-> Unset,
              caught |-> "", nDevs |-> Unset, timeVec |-> NoTimeVec]

Raise(c, e) == [c EXCEPT !.err = e]

IO(c, f, entry) ==
    IF c.err # "" THEN c
    ELSE IF c.n + 1 = f THEN [c EXCEPT !.n = @ + 1, !.err = "OSError"]
    ELSE [c EXCEPT !.n = @ + 1, !.log = Append(@, entry)]

write(c, f, command) == IO(c, f, [op |-> "write", cmd |-> command, n |-> 0])

read(c, f, nRead) == IO(c, f, [op |-> "read", cmd |-> "", n |-> nRead])

query(c, f, command) == read(write(c, f, command), f, 100)

\* usbtmc.getName()
getName(c, f) == read(write(c, f, "*IDN?"), f, 300)

\* usbtmc.sendReset()
sendReset(c, f) == write(c, f, "*RST")

\* RigolDS1102.reset(): its one statement, 'self.resource.sendReset', looks
\* the method up and does not call it.
reset(c, f) == c

\* 'try: ... except: print(...)' around the statements that end in context
\* c: their exception is caught by the bare except clause and not raised
\* again.
tryExcept(c) ==
    IF c.err # "" THEN [c EXCEPT !.caught = c.err, !.err = ""] ELSE c


---------------------------------------------------------------------------
(* Reading scope settings *)

getTScale(c, f) ==
    LET c1 == query(c, f, ":TIM:SCAL?")
    IN  IF c1.err # "" THEN c1
        ELSE [c1 EXCEPT !.self.tScale = float(resource.tscale)]

getTOffset(c, f) ==
    LET c1 == query(c, f, ":TIM:OFFS?")
    IN  IF c1.err # "" THEN c1
        ELSE [c1 EXCEPT !.self.tOffs = float(resource.toffs),
                        !.val = float(resource.toffs)]

getMemDepth(c, f) ==
    LET c1 == query(c, f, ":ACQ:MEMDEPTH?")
    IN  IF c1.err # "" THEN c1
        ELSE [c1 EXCEPT !.self.memDepth = resource.depth]

getAcqMode(c, f) ==
    LET c1 == query(c, f, ":WAV:POINTS:MODE?")
    IN  IF c1.err # "" THEN c1
        ELSE [c1 EXCEPT !.self.acqMode = resource.mode]

\* dataPointSwitch with the depth and channel branches ahead of the mode's.
dataPointSwitch_depthFirst(mode, depth, n) ==
    IF depth = "NORMAL" /\ n = 2 THEN 8192 + 10
    ELSE IF depth = "NORMAL" /\ n = 1 THEN 16384 + 10
    ELSE IF depth = "LONG" /\ n = 2 THEN 524288 + 10
    ELSE IF depth = "LONG" /\ n = 1 THEN 1048576 + 10
    ELSE IF mode = "NORMAL" THEN 600 + 10
    ELSE Unset

\* dataPointSwitch with the 10 bytes of header left out of the RAW counts.
dataPointSwitch_noHeader(mode, depth, n) ==
    IF mode = "NORMAL" THEN 600 + 10
    ELSE IF depth = "NORMAL" /\ n = 2 THEN 8192
    ELSE IF depth = "NORMAL" /\ n = 1 THEN 16384
    ELSE IF depth = "LONG" /\ n = 2 THEN 524288
    ELSE IF depth = "LONG" /\ n = 1 THEN 1048576
    ELSE Unset

\* Replies to ':CHAN1:DISP?' and ':CHAN2:DISP?'.
DisplayReplies == {"ON", "OFF"}

NoDisplay == [ch1 |-> "", ch2 |-> ""]

\* What the scope replies to a display query when its channels are
\* displayed as disp.
DisplayReply(disp, command) ==
    IF command = ":CHAN1:DISP?" THEN disp.ch1 ELSE disp.ch2

\* getNumChannels that switches channel 1 on, as setNumChannels does, before
\* it asks.
getNumChannels_display(c, f, disp) ==
    LET c1 == query(write(c, f, ":CHAN1:DISP ON"), f, ":CHAN1:DISP?")
    IN  IF c1.err # "" THEN c1
        ELSE [c1 EXCEPT !.self.nChannels = IF disp.ch1 = "ON" THEN 2 ELSE 0]

\* getNumChannels(nChannels) when the scope's channels are displayed as
\* disp: ':CHAN1:DISP?' is the query behind both ch1 and ch2.
getNumChannels(c, f, disp) ==
    LET c1 == query(c, f, ":CHAN1:DISP?")
        ch1 == DisplayReply(disp, ":CHAN1:DISP?")
        c2 == query(c1, f, ":CHAN1:DISP?")
        ch2 == DisplayReply(disp, ":CHAN1:DISP?")
    IN  IF c2.err # "" THEN c2
        ELSE IF ch1 = "ON" /\ ch2 = "ON" THEN [c2 EXCEPT !.self.nChannels = 2]
        ELSE IF ch1 = "OFF" /\ ch2 = "OFF"
             THEN [c2 EXCEPT !.self.nChannels = 0]
        ELSE [c2 EXCEPT !.self.nChannels = 1]

\* The if/elif chain of getNPoints on dataPointSwitch = [mode, depth, n]:
\* the local nPoints, Unset when no branch binds it.
dataPointSwitch(mode, depth, n) ==
    IF mode = "NORMAL" THEN 600 + 10
    ELSE IF depth = "NORMAL" /\ n = 2 THEN 8192 + 10
    ELSE IF depth = "NORMAL" /\ n = 1 THEN 16384 + 10
    ELSE IF depth = "LONG" /\ n = 2 THEN 524288 + 10
    ELSE IF depth = "LONG" /\ n = 1 THEN 1048576 + 10
    ELSE Unset

getNPoints(c, f) ==
    LET c1 == getAcqMode(c, f)
        c2 == getMemDepth(c1, f)
        nPoints == dataPointSwitch(c2.self.acqMode, c2.self.memDepth,
                                   c2.self.nChannels)
    IN  IF c2.err # "" THEN c2
        ELSE IF c2.self.nChannels = Unset THEN Raise(c2, "AttributeError")
        ELSE IF nPoints = Unset THEN Raise(c2, "UnboundLocalError")
        ELSE [c2 EXCEPT !.self.nPoints = nPoints]

---------------------------------------------------------------------------
(* getNDevs: the four devDict tables, keyed by time/division in            *)
(* nanoseconds, each value twice the source's.                             *)

devDictNormal1 ==
    (50000000 :> 24) @@ (20000000 :> 164) @@ (10000000 :> 132) @@
    (5000000 :> 132) @@ (2000000 :> 164) @@ (1000000 :> 132) @@
    (500000 :> 132) @@ (200000 :> 164) @@ (100000 :> 132) @@
    (50000 :> 132) @@ (20000 :> 164) @@ (10000 :> 132) @@
    (5000 :> 132) @@ (2000 :> 164)

devDictNormal2 ==
    (50000000 :> 24) @@ (20000000 :> 82) @@ (10000000 :> 66) @@
    (5000000 :> 66) @@ (2000000 :> 82) @@ (1000000 :> 66) @@
    (500000 :> 66) @@ (200000 :> 82) @@ (100000 :> 66) @@
    (50000 :> 66) @@ (20000 :> 82) @@ (10000 :> 66) @@
    (5000 :> 66) @@ (2000 :> 82)

\* devDictLong1 with the 52.5 divisions of 100 us/div held as 52.
devDictLong1_truncated ==
    (500000000 :> 24) @@ (200000000 :> 24) @@ (100000000 :> 24) @@
    (50000000 :> 24) @@ (20000000 :> 52) @@ (10000000 :> 52) @@
    (5000000 :> 42) @@ (2000000 :> 52) @@ (1000000 :> 52) @@
    (500000 :> 42) @@ (200000 :> 52) @@ (100000 :> 104) @@
    (50000 :> 210) @@ (20000 :> 524) @@ (10000 :> 1048) @@
    (5000 :> 2096)

devDictLong1 ==
    (500000000 :> 24) @@ (200000000 :> 24) @@ (100000000 :> 24) @@
    (50000000 :> 24) @@ (20000000 :> 52) @@ (10000000 :> 52) @@
    (5000000 :> 42) @@ (2000000 :> 52) @@ (1000000 :> 52) @@
    (500000 :> 42) @@ (200000 :> 52) @@ (100000 :> 105) @@
    (50000 :> 210) @@ (20000 :> 524) @@ (10000 :> 1048) @@
    (5000 :> 2096)

devDictLong2 ==
    (500000000 :> 24) @@ (200000000 :> 24) @@ (100000000 :> 24) @@
    (50000000 :> 24) @@ (20000000 :> 52) @@ (10000000 :> 52) @@
    (5000000 :> 42) @@ (2000000 :> 52) @@ (1000000 :> 52) @@
    (500000 :> 42) @@ (200000 :> 52) @@ (100000 :> 105) @@
    (50000 :> 210) @@ (20000 :> 524) @@ (10000 :> 1048) @@
    (5000 :> 2096)

\* The table the branches of getNDevs bind to devDict: the empty function
\* stands for a devDict that no branch bound (nChan neither 1 nor 2).
NoDict == [k \in {} |-> 0]

devDict(depth, nChan) ==
    IF depth = "NORMAL"
    THEN IF nChan = 1 THEN devDictNormal1
         ELSE IF nChan = 2 THEN devDictNormal2 ELSE NoDict
    ELSE IF nChan = 1 THEN devDictLong1
         ELSE IF nChan = 2 THEN devDictLong2 ELSE NoDict

\* lookupNDev with a division count that falls back to the screen's 12 when
\* the key is missing, instead of leaving nDev unbound.
lookupNDev_fallback(c, mode, depth, nChan, tDev) ==
    IF mode = "NORMAL" THEN [c EXCEPT !.val = 2 * 12]
    ELSE IF devDict(depth, nChan) = NoDict THEN Raise(c, "UnboundLocalError")
    ELSE IF tDev \in DOMAIN devDict(depth, nChan)
         THEN [c EXCEPT !.val = devDict(depth, nChan)[tDev]]
         ELSE [c EXCEPT !.val = 2 * 12, !.caught = "KeyError"]

\* 'try: nDev = devDict[tDev]; except KeyError: print(...)' and then
\* 'return nDev': the value returned (twice the division count), or the
\* exception.  A devDict that was never bound raises at the lookup, a key
\* that is missing leaves nDev unbound and 'return nDev' raises.
lookupNDev(c, mode, depth, nChan, tDev) ==
    IF mode = "NORMAL" THEN [c EXCEPT !.val = 2 * 12]
    ELSE IF devDict(depth, nChan) = NoDict THEN Raise(c, "UnboundLocalError")
    ELSE IF tDev \in DOMAIN devDict(depth, nChan)
         THEN [c EXCEPT !.val = devDict(depth, nChan)[tDev]]
         ELSE Raise([c EXCEPT !.caught = "KeyError"], "UnboundLocalError")

getNDevs(c, f) ==
    LET c1 == getTScale(c, f)
        c2 == getAcqMode(c1, f)
        c3 == getMemDepth(c2, f)
    IN  IF c3.err # "" THEN c3
        ELSE lookupNDev(c3, c3.self.acqMode, c3.self.memDepth,
                        c3.self.nChannels, c3.self.tScale)

---------------------------------------------------------------------------
(* getTimeVec *)

\* len(np.arange(-tScale*nDevs/2, tScale*nDevs/2, dt)) with
\* dt = float(tScale*nDevs)/nDataPoints, which numpy computes as
\* ceil((stop - start)/dt) in IEEE-754 doubles.  The exact quotient is
\* nDataPoints; in doubles it comes out just above 600 for 12 divisions of
\* 50 ns, 100 ns and 200 ns, and numpy then returns 601 points.  For the
\* other sample counts (powers of two) the division is exact.
arangeLen(tScale, nDevs2, nDataPoints) ==
    IF nDataPoints = 600 /\ nDevs2 = 24 /\ tScale \in {50, 100, 200}
    THEN nDataPoints + 1
    ELSE nDataPoints

\* arange with the step of a screen of 12 divisions whatever nDevs is.
arange_12divs(tScale, nDevs2, nDataPoints, tOffs) ==
    [start |-> -(nDevs2 * nDataPoints), step |-> 2 * (2 * 12),
     unitNum |-> tScale, unitDen |-> 4 * nDataPoints, offs |-> tOffs]

\* np.arange(-tScale*nDevs/2, tScale*nDevs/2, dt) + tOffs with
\* dt = float(tScale*nDevs)/nDataPoints: element i is start + i*step of the
\* unit tScale/(4*nDataPoints), plus offs nanoseconds.  In that unit
\* -tScale*nDevs/2 is -(nDevs2*nDataPoints) and dt is 2*nDevs2.
arange(tScale, nDevs2, nDataPoints, tOffs) ==
    [start |-> -(nDevs2 * nDataPoints), step |-> 2 * nDevs2,
     unitNum |-> tScale, unitDen |-> 4 * nDataPoints, offs |-> tOffs]

getTimeVec(c, f) ==
    LET c1 == getNPoints(c, f)
        c2 == getTScale(c1, f)
        c3 == getTOffset(c2, f)
        nDataPoints == c3.self.nPoints - 10
        c4 == getNDevs(c3, f)
    IN  IF c4.err # "" THEN c4
        ELSE [c4 EXCEPT
                 !.val = arangeLen(c4.self.tScale, c4.val, nDataPoints),
                 !.nDevs = c4.val,
                 !.timeVec = arange(c4.self.tScale, c4.val, nDataPoints,
                                    c4.self.tOffs)]

---------------------------------------------------------------------------
(* Reading data from the scope *)

\* What self.resource.read(nPoints) can return: at most nPoints bytes,
\* possibly fewer, possibly none.
ReadLens(nPoints) == {nPoints - d : d \in 0..MaxShort} \cup {0}

\* len(np.frombuffer(rawdata, 'B')[10:]) for nBytes bytes of rawdata.
stripHeader(nBytes) == IF nBytes > 10 THEN nBytes - 10 ELSE 0

\* readTrace(channel) when the transport returns nBytes bytes.
readTrace(c, f, ch, nBytes) ==
    LET c1 == write(c, f, ":WAV:DATA? CHAN" \o ch)
        c2 == read(c1, f, c.self.nPoints)
    IN  IF c2.err # "" THEN c2 ELSE [c2 EXCEPT !.val = stripHeader(nBytes)]

\* The bytes a trace is sampled at: the two ends of the range and the code
\* of zero volts.
SampleBytes == {0, 130, 255}

\* The sample of the trace that readTrace returned in c.val: any byte, and
\* 0 to stand for the sample that an empty or unread trace does not have.
SamplesOf(c) == IF c.err = "" /\ c.val > 0 THEN SampleBytes ELSE {0}

\* The channels of the scope, as readWaveform names them.
ChannelNames == {"1", "2"}

\* Replies of a channel to ':CHANn:OFFS?' and ':CHANn:SCAL?', in millivolts.
VerticalReplies == {[offs |-> 0, scale |-> 1000],
                    [offs |-> 500, scale |-> 2000]}

NoReply == [offs |-> Unset, scale |-> Unset]

NoVertical == [ch \in ChannelNames |-> NoReply]

\* Channel ch replies to both its queries in the decoding of channel first
\* (and of channel 2 when both): it is one of those, and no query raises.
Replies(ch, first, both, f) == f = 0 /\ (ch = first \/ (both /\ ch = "2"))

\* volts with the byte negated in uint8 (256 - b for b > 0), as an array
\* product that kept the dtype of data would give.
volts_uint8(b, Voffs, Vscale) ==
    ((((256 - b) % 256) + 255) - 130) * Vscale - Voffs * 25

\* ( (np.asarray(data) * -1 + 255) - 130.0 - Voffs/Vscale*25) / 25 * Vscale
\* for the byte b of data, multiplied by 25.  The product of the uint8 array
\* with -1 is an int16 array, so that -b is not reduced modulo 256.
volts(b, Voffs, Vscale) == ((b * (-1) + 255) - 130) * Vscale - Voffs * 25

\* rescaleToVolts decoding with the replies of channel 1 whatever channel it
\* is called for.
rescaleToVolts_chan1(c, f, n, b, ch, vert) ==
    LET c1 == query(c, f, ":CHAN" \o ch \o ":OFFS?")
        c2 == query(c1, f, ":CHAN" \o ch \o ":SCAL?")
    IN  IF c2.err # "" THEN c2
        ELSE [c2 EXCEPT !.val = [len |-> n,
                                 v |-> volts(b, vert["1"].offs,
                                             vert["1"].scale)]]

\* rescaleToVolts(data, channel) for len(data) = n and the byte b of data,
\* when the scope replies vert[ch] for channel ch: the length of Vdata and
\* its element at the index of b.
rescaleToVolts(c, f, n, b, ch, vert) ==
    LET c1 == query(c, f, ":CHAN" \o ch \o ":OFFS?")
        c2 == query(c1, f, ":CHAN" \o ch \o ":SCAL?")
    IN  IF c2.err # "" THEN c2
        ELSE [c2 EXCEPT !.val = [len |-> n,
                                 v |-> volts(b, vert[ch].offs,
                                             vert[ch].scale)]]

\* column_stack that takes the first column's length without comparing the
\* others with it.
column_stack_unchecked(c, cols) ==
    [c EXCEPT !.val = [rows |-> cols[1], cols |-> Len(cols)]]

\* np.column_stack(cols) for a sequence of column lengths: the shape of the
\* result, or ValueError when the lengths differ.
column_stack(c, cols) ==
    IF \A i \in 1..Len(cols) : cols[i] = cols[1]
    THEN [c EXCEPT !.val = [rows |-> cols[1], cols |-> Len(cols)]]
    ELSE Raise(c, "ValueError")

\* sendsStop with the threshold compared by >= instead of >.
sendsStop_ge(nPoints, stop) == nPoints >= 610 /\ stop

\* 'if self.nPoints > 610: if stopping:' of readWaveform.
sendsStop(nPoints, stop) == nPoints > 610 /\ stop

\* 'if self.nPoints > 610:' before the write of ':RUN'.
sendsRun(nPoints, stop) == nPoints > 610

\* nextStatement with the scope restarted before the second channel is read.
nextStatement_runEarly(s, both) ==
    CASE s = "getTimeVec" -> "stop"
      [] s = "stop" -> "readTrace"
      [] s = "readTrace" -> "run"
      [] s = "run" -> IF both THEN "readTrace2" ELSE "decode"
      [] s = "readTrace2" -> "decode"
      [] s = "decode" -> "returned"

\* The statement of readWaveform that follows statement s.
nextStatement(s, both) ==
    CASE s = "getTimeVec" -> "stop"
      [] s = "stop" -> "readTrace"
      [] s = "readTrace" -> IF both THEN "readTrace2" ELSE "run"
      [] s = "readTrace2" -> "run"
      [] s = "run" -> "decode"
      [] s = "decode" -> "returned"

NoShape == [rows |-> Unset, cols |-> Unset]

\* The end of a statement of readWaveform whose context is c: the exception
\* propagates out of readWaveform, or control passes to the next statement.
Step(c, s, both) ==
    /\ self' = c.self
    /\ log' = c.log
    /\ err' = c.err
    /\ caught' = IF c.caught # "" THEN c.caught ELSE caught
    /\ IF c.err # ""
       THEN pc' = "raised" /\ raisedAt' = s
       ELSE pc' = nextStatement(s, both) /\ raisedAt' = raisedAt

\* The call readWaveform(channel, stopping), up to
\* 'tData = self.getTimeVec()', which reads neither argument.
readWaveform ==
    /\ pc = "idle"
    /\ \E f \in 0..14 :
          LET c == getTimeVec(Ctx(self, log), f)
          IN  /\ Step(c, "getTimeVec", bothChannels)
              /\ tData' = IF c.err = "" THEN c.val ELSE tData
              /\ nDevs' = c.nDevs
              /\ timeVec' = c.timeVec
    /\ UNCHANGED <<resource, channel, bothChannels, stopping, data, data2,
                   waveData, rawdata, vertical, Vdata, display, offScope>>

\* 'channel = str(channel)' ... 'self.write(":STOP")', for the arguments
\* ch and stop of the call, which are first read here.
RW_stop(ch, stop) ==
    /\ pc = "stop"
    /\ stopping' = stop
    /\ bothChannels' = (ch = "BOTH")
    /\ channel' = IF ch = "BOTH" THEN "1" ELSE ch
    /\ \E f \in 0..1 :
          LET c0 == Ctx(self, log)
              c == IF sendsStop(self.nPoints, stop)
                   THEN write(c0, f, ":STOP") ELSE c0
          IN  Step(c, "stop", ch = "BOTH")
    /\ UNCHANGED <<resource, tData, data, data2, waveData, nDevs, timeVec,
                   rawdata, vertical, Vdata, display, offScope>>

\* data = self.readTrace(channel)
RW_readTrace ==
    /\ pc = "readTrace"
    /\ \E f \in 0..2, nBytes \in ReadLens(self.nPoints) :
          LET c == readTrace(Ctx(self, log), f, channel, nBytes)
          IN  \E b \in SamplesOf(c) :
              /\ Step(c, "readTrace", bothChannels)
              /\ data' = IF c.err = "" THEN c.val ELSE data
              /\ rawdata' = IF c.err = "" THEN <<b>> ELSE rawdata
    /\ UNCHANGED <<resource, channel, bothChannels, stopping, tData, data2,
                   waveData, nDevs, timeVec, vertical, Vdata, display,
                   offScope>>

\* if bothChannels: data2 = self.readTrace(2)
RW_readTrace2 ==
    /\ pc = "readTrace2"
    /\ \E f \in 0..2, nBytes \in ReadLens(self.nPoints) :
          LET c == readTrace(Ctx(self, log), f, "2", nBytes)
          IN  \E b \in SamplesOf(c) :
              /\ Step(c, "readTrace2", bothChannels)
              /\ data2' = IF c.err = "" THEN c.val ELSE data2
              /\ rawdata' = IF c.err = "" THEN Append(rawdata, b)
                             ELSE rawdata
    /\ UNCHANGED <<resource, channel, bothChannels, stopping, tData, data,
                   waveData, nDevs, timeVec, vertical, Vdata, display,
                   offScope>>

\* if self.nPoints > 610: self.write(":RUN")
RW_run ==
    /\ pc = "run"
    /\ \E f \in 0..1 :
          LET c0 == Ctx(self, log)
              c == IF sendsRun(self.nPoints, stopping)
                   THEN write(c0, f, ":RUN") ELSE c0
          IN  Step(c, "run", bothChannels)
    /\ UNCHANGED <<resource, channel, bothChannels, stopping, tData, data,
                   data2, waveData, nDevs, timeVec, rawdata, vertical, Vdata,
                   display, offScope>>

\* Vdata = self.rescaleToVolts(data, channel) ... return waveData
RW_decode ==
    /\ pc = "decode"
    /\ \E f \in 0..(IF bothChannels THEN 8 ELSE 4),
          vert \in [ChannelNames -> VerticalReplies \cup {NoReply}] :
          LET c1 == rescaleToVolts(Ctx(self, log), f, data, rawdata[1],
                                   channel, vert)
              Vdata1 == c1.val
              c2 == IF c1.err # "" \/ ~bothChannels THEN c1
                    ELSE rescaleToVolts([c1 EXCEPT !.val = Unset], f, data2,
                                        rawdata[2], "2", vert)
              Vdata2 == c2.val
              c3 == IF c2.err # "" THEN c2
                    ELSE IF bothChannels
                         THEN column_stack(c2, <<tData, Vdata1.len, Vdata2.len>>)
                         ELSE column_stack(c2, <<tData, Vdata1.len>>)
          IN  /\ \A ch \in ChannelNames :
                    vert[ch] = NoReply
                        <=> ~Replies(ch, channel, bothChannels, f)
              /\ Step(c3, "decode", bothChannels)
              /\ waveData' = IF c3.err = "" THEN c3.val ELSE waveData
              /\ vertical' = IF c3.err = "" THEN vert ELSE vertical
              /\ Vdata' = IF c3.err # "" THEN Vdata
                           ELSE IF bothChannels THEN <<Vdata1.v, Vdata2.v>>
                           ELSE <<Vdata1.v>>
    /\ UNCHANGED <<resource, channel, bothChannels, stopping, tData, data,
                   data2, nDevs, timeVec, rawdata, display, offScope>>

\* RigolDS1102(useUSBTMC = True), after usbtmc(path) has opened the device:
\* 'try: self.name = self.resource.getName()' and its 'except:'.  No method
\* reads self.name, which is left out of self.
RigolDS1102_init ==
    /\ pc = "new"
    /\ \E f \in 0..2 :
          LET c == tryExcept(getName(Ctx(self, log), f))
          IN  /\ self' = c.self
              /\ log' = c.log
              /\ err' = c.err
              /\ caught' = c.caught
    /\ pc' = "constructed"
    /\ UNCHANGED <<resource, channel, bothChannels, stopping, tData, data,
                   data2, raisedAt, waveData, nDevs, timeVec, rawdata,
                   vertical, Vdata, display, offScope>>

\* The call getNumChannels(nChannels), to its return or its exception.  The
\* caller asks the scope for the channel count when it has set none.
GetNumChannels ==
    /\ pc = "idle"
    /\ self.nChannels = Unset
    /\ \E f \in 0..4, disp \in [ch1 : DisplayReplies, ch2 : DisplayReplies] :
          LET c == getNumChannels(Ctx(self, log), f, disp)
          IN  /\ self' = c.self
              /\ log' = c.log
              /\ err' = c.err
              /\ caught' = c.caught
              /\ display' = disp
    /\ pc' = "gotNumChannels"
    /\ UNCHANGED <<resource, channel, bothChannels, stopping, tData, data,
                   data2, raisedAt, waveData, nDevs, timeVec, rawdata,
                   vertical, Vdata, offScope>>

\* The call reset(), to its return.
Reset ==
    /\ pc = "idle"
    /\ \E f \in 0..1 :
          LET c == reset(Ctx(self, log), f)
          IN  /\ self' = c.self
              /\ log' = c.log
              /\ err' = c.err
              /\ caught' = c.caught
    /\ pc' = "didReset"
    /\ UNCHANGED <<resource, channel, bothChannels, stopping, tData, data,
                   data2, raisedAt, waveData, nDevs, timeVec, rawdata,
                   vertical, Vdata, display, offScope>>

\* The call has returned or raised: the caller goes on.
Return ==
    /\ pc \in {"returned", "raised", "gotNumChannels", "constructed",
               "didReset"}
    /\ pc' = "idle"
    /\ channel' = "1"
    /\ bothChannels' = FALSE
    /\ stopping' = TRUE
    /\ tData' = Unset
    /\ data' = Unset
    /\ data2' = Unset
    /\ log' = <<>>
    /\ err' = ""
    /\ raisedAt' = ""
    /\ waveData' = NoShape
    /\ caught' = ""
    /\ nDevs' = Unset
    /\ timeVec' = NoTimeVec
    /\ rawdata' = <<>>
    /\ vertical' = NoVertical
    /\ Vdata' = <<>>
    /\ display' = NoDisplay
    /\ UNCHANGED <<resource, self, offScope>>

---------------------------------------------------------------------------
(* Configuring the scope *)

\* setNumChannels(nChannels): the attribute is assigned, the two display
\* commands are written.
setNumChannels(n) ==
    /\ pc = "idle"
    /\ self' = [self EXCEPT !.nChannels = n]
    /\ UNCHANGED <<resource, pc, frame, offScope>>

\* setAcqMode(acqMode)
setAcqMode(m) ==
    /\ pc = "idle"
    /\ resource' = [resource EXCEPT !.mode = m]
    /\ UNCHANGED <<self, pc, frame, offScope>>

\* setMemDepth(memDepth)
setMemDepth(d) ==
    /\ pc = "idle"
    /\ resource' = [resource EXCEPT !.depth = d]
    /\ UNCHANGED <<self, pc, frame, offScope>>

\* setTimeScale(scale)
setTimeScale(s) ==
    /\ pc = "idle"
    /\ resource' = [resource EXCEPT !.tscale = s]
    /\ UNCHANGED <<self, pc, frame, offScope>>

---------------------------------------------------------------------------
(* GenerateArb.py: the 14-bit quantizer.  A voltage V in [0, 1] is the     *)
(* fraction k/ArbDen, held by k; a multiple of ArbDen/2 puts bitrange*V    *)
(* half way between two integers.                                          *)

bitrange == 16383

\* The voltages of the model are the multiples of 1/(ArbResolution*bitrange).
ArbResolution == 6

ArbDen == ArbResolution * bitrange

\* V2b that truncates instead of rounding.
V2b_truncated(k) == (bitrange * k) \div ArbDen

\* V2b(V) = np.round(bitrange*V) for V = k/ArbDen: the nearest integer, the
\* even one of the two when bitrange*V is half way between them.
V2b(k) ==
    LET q == (bitrange * k) \div ArbDen
        r == (bitrange * k) % ArbDen
    IN  IF 2 * r < ArbDen THEN q
        ELSE IF 2 * r > ArbDen THEN q + 1
        ELSE IF q % 2 = 0 THEN q ELSE q + 1

\* b2V(b) = b/bitrange, a true division since b is the float that np.round
\* returned: the fraction num/den.
b2V(b) == [num |-> b, den |-> bitrange]

NoArb == [k |-> 0, b |-> Unset, V |-> [num |-> Unset, den |-> bitrange]]

\* b = V2b(V) for a voltage V = k/ArbDen in [0, 1]
ArbV2b ==
    /\ arb.b = Unset
    /\ \E k \in 0..ArbDen : arb' = [k |-> k, b |-> V2b(k), V |-> NoArb.V]
    /\ UNCHANGED offArb

\* V = b2V(b) for the b that V2b returned
Arbb2V ==
    /\ arb.b # Unset
    /\ arb.V.num = Unset
    /\ arb' = [arb EXCEPT !.V = b2V(arb.b)]
    /\ UNCHANGED offArb

\* The caller goes on to the next voltage.
ArbReturn ==
    /\ arb.V.num # Unset
    /\ arb' = NoArb
    /\ UNCHANGED offArb

---------------------------------------------------------------------------
(* RigolDG1032TMC and RigolDG1032: loadVolatile.  A voltage vector V is a  *)
(* sequence of voltages in millivolts; a time vector t is held by its      *)
(* length and its first step t[1]-t[0] in microseconds.  A command is held *)
(* by the pieces it is concatenated from.                                  *)

\* The voltages of a waveform, in millivolts (even, so that (VMax+VMin)/2
\* is a whole number of millivolts and np.round(..., 3) leaves it alone).
ArbVolts == {0, 500, 1000}

\* The longest waveform.
MaxPoints == 3

\* t[1]-t[0] in microseconds; each is a divisor of 1000000, so that 1/dt is
\* an integer that round leaves alone.  0 is a time vector that repeats
\* its first time.
TimeSteps == {0, 1, 50}

TimeVectors ==
    {[len |-> n, dt |-> 0] : n \in 0..1}
        \cup [len : 2..MaxPoints, dt : TimeSteps]

VoltVectors == UNION {[1..n -> ArbVolts] : n \in 0..MaxPoints}

PointRanges == {16383, 255}

\* What '.astype(int)' makes of nan: the most negative integer or 0,
\* after the processor (2^31 - 1 stands for 2^63).
NanCasts == {-2147483647, 0}

RECURSIVE seqMax(_)
seqMax(V) ==
    IF Len(V) = 1 THEN V[1]
    ELSE LET m == seqMax(Tail(V)) IN IF V[1] > m THEN V[1] ELSE m

RECURSIVE seqMin(_)
seqMin(V) ==
    IF Len(V) = 1 THEN V[1]
    ELSE LET m == seqMin(Tail(V)) IN IF V[1] < m THEN V[1] ELSE m

\* np.round(a/b) for a >= 0 and b > 0: the nearest integer, the even one on
\* a tie.
roundDiv(a, b) ==
    LET q == a \div b
        r == a % b
    IN  IF 2 * r < b THEN q
        ELSE IF 2 * r > b THEN q + 1
        ELSE IF q % 2 = 0 THEN q ELSE q + 1

\* val_list without the shift by VMin: V is divided by VMax.
val_list_unshifted(V, pointRange, nanCast) ==
    LET VMax == seqMax(V)
    IN  [i \in 1..Len(V) |->
            IF VMax = 0 THEN nanCast ELSE roundDiv(V[i] * pointRange, VMax)]

\* val_list = list(np.round(V*pointRange).astype(int)) for
\* V = 1.0*(V-VMin)/VAmpl; with VAmpl = 0 every element is 0/0 = nan.
val_list(V, pointRange, nanCast) ==
    LET VMin == seqMin(V)
        VAmpl == seqMax(V) - VMin
    IN  [i \in 1..Len(V) |->
            IF VAmpl = 0 THEN nanCast
            ELSE roundDiv((V[i] - VMin) * pointRange, VAmpl)]

\* RigolDG1032TMC.setArbitrary(channel, samplerate, ampl, offs)
TMC_setArbitrary(c, f, chan, samplerate, ampl, offs) ==
    write(c, f, [head |-> ":SOURCE", ch |-> chan, cmd |-> ":APPL:ARB ",
                 args |-> <<samplerate, ampl, offs>>])

\* RigolDG1032TMC.setVolatilePoints(n, channel)
TMC_setVolatilePoints(c, f, n, chan) ==
    write(c, f, [head |-> ":SOUR", ch |-> chan,
                 cmd |-> ":TRACE:DATA:POIN VOLATILE,", args |-> <<n>>])

\* setVolatileVal with the points numbered from 0.
TMC_setVolatileVal_zeroBased(c, f, n, val, chan) ==
    write(c, f, [head |-> ":SOUR", ch |-> chan,
                 cmd |-> ":DATA:VAL VOLATILE,", args |-> <<n - 1, val>>])

\* RigolDG1032TMC.setVolatileVal(n, val, channel)
TMC_setVolatileVal(c, f, n, val, chan) ==
    write(c, f, [head |-> ":SOUR", ch |-> chan,
                 cmd |-> ":DATA:VAL VOLATILE,", args |-> <<n, val>>])

\* RigolDG1032TMC.loadVolatile: for num, val in enumerate(val_list, start=1):
\*     self.setVolatileVal(num, val, channel)
\* from num on.
RECURSIVE TMC_writePoints(_, _, _, _, _)
TMC_writePoints(c, f, vals, num, chan) ==
    IF num > Len(vals) \/ c.err # "" THEN c
    ELSE TMC_writePoints(TMC_setVolatileVal(c, f, num, vals[num], chan), f,
                         vals, num + 1, chan)

\* RigolDG1032TMC.loadVolatile(t, V, channel, pointRange): c.val tells
\* whether the warning of the length test was printed.
TMC_loadVolatile(c, f, t, V, chan, pointRange, nanCast) ==
    LET c0 == [c EXCEPT !.val = IF t.len # Len(V) THEN 1 ELSE 0]
    IN  IF Len(V) = 0 THEN Raise(c0, "ValueError")
        ELSE IF t.len < 2 THEN Raise(c0, "IndexError")
        ELSE IF t.dt = 0 THEN Raise(c0, "OverflowError")
        ELSE LET VMax == seqMax(V)
                 VMin == seqMin(V)
                 VAmpl == VMax - VMin
                 VOffs == (VMax + VMin) \div 2
                 vals == val_list(V, pointRange, nanCast)
                 nPoints == t.len
                 sRate == 1000000 \div t.dt
                 c1 == TMC_setArbitrary(c0, f, chan, sRate, VAmpl, VOffs)
                 c2 == TMC_setVolatilePoints(c1, f, nPoints, chan)
             IN  TMC_writePoints(c2, f, vals, 1, chan)

\* RigolDG1032.setArbitrary(channel, samplerate, ampl, offs)
DG_setArbitrary(c, f, chan, samplerate, ampl, offs) ==
    write(c, f, [head |-> ":SOURCE", ch |-> chan, cmd |-> ":APPL:ARB ",
                 args |-> <<samplerate, ampl, offs>>])

\* setVolatilePoints with the long form of the SOURCE keyword.
DG_setVolatilePoints_longForm(c, f, n, chan) ==
    write(c, f, [head |-> ":SOURCE", ch |-> chan,
                 cmd |-> ":TRACE:DATA:POIN VOLATILE,", args |-> <<n>>])

\* RigolDG1032.setVolatilePoints(n, channel)
DG_setVolatilePoints(c, f, n, chan) ==
    write(c, f, [head |-> ":SOUR", ch |-> chan,
                 cmd |-> ":TRACE:DATA:POIN VOLATILE,", args |-> <<n>>])

\* RigolDG1032.setVolatileVal(n, val, channel)
DG_setVolatileVal(c, f, n, val, chan) ==
    write(c, f, [head |-> ":SOUR", ch |-> chan,
                 cmd |-> ":DATA:VAL VOLATILE,", args |-> <<n, val>>])

\* RigolDG1032.loadVolatile: for num, val in enumerate(val_list, start=1):
\*     self.setVolatileVal(num, val, channel)
\* from num on.
RECURSIVE DG_writePoints(_, _, _, _, _)
DG_writePoints(c, f, vals, num, chan) ==
    IF num > Len(vals) \/ c.err # "" THEN c
    ELSE DG_writePoints(DG_setVolatileVal(c, f, num, vals[num], chan), f,
                        vals, num + 1, chan)

\* loadVolatile that raises when the lengths of t and V differ.
DG_loadVolatile_checked(c, f, t, V, chan, pointRange, nanCast) ==
    IF t.len # Len(V) \/ Len(V) = 0 THEN Raise(c, "ValueError")
    ELSE IF t.len < 2 THEN Raise(c, "IndexError")
    ELSE IF t.dt = 0 THEN Raise(c, "OverflowError")
    ELSE LET vals == val_list(V, pointRange, nanCast)
             c1 == DG_setArbitrary(c, f, chan, 1000000 \div t.dt,
                                   seqMax(V) - seqMin(V),
                                   (seqMax(V) + seqMin(V)) \div 2)
             c2 == DG_setVolatilePoints(c1, f, t.len, chan)
         IN  DG_writePoints(c2, f, vals, 1, chan)

\* RigolDG1032.loadVolatile(t, V, channel, pointRange): c.val tells
\* whether the warning of the length test was printed.
DG_loadVolatile(c, f, t, V, chan, pointRange, nanCast) ==
    LET c0 == [c EXCEPT !.val = IF t.len # Len(V) THEN 1 ELSE 0]
    IN  IF Len(V) = 0 THEN Raise(c0, "ValueError")
        ELSE IF t.len < 2 THEN Raise(c0, "IndexError")
        ELSE IF t.dt = 0 THEN Raise(c0, "OverflowError")
        ELSE LET VMax == seqMax(V)
                 VMin == seqMin(V)
                 VAmpl == VMax - VMin
                 VOffs == (VMax + VMin) \div 2
                 vals == val_list(V, pointRange, nanCast)
                 nPoints == t.len
                 sRate == 1000000 \div t.dt
                 c1 == DG_setArbitrary(c0, f, chan, sRate, VAmpl, VOffs)
                 c2 == DG_setVolatilePoints(c1, f, nPoints, chan)
             IN  DG_writePoints(c2, f, vals, 1, chan)

NoCall == [called |-> FALSE, log |-> <<>>, err |-> "", warned |-> FALSE]

NoGen == [t |-> [len |-> 0, dt |-> 0], V |-> <<>>, channel |-> 1,
          pointRange |-> 16383, nanCast |-> 0, tmc |-> NoCall,
          visa |-> NoCall]

\* What a call of loadVolatile that ended in context c leaves behind.
Called(c) == [called |-> TRUE, log |-> c.log, err |-> c.err,
              warned |-> c.val = 1]

\* RigolDG1032TMC.loadVolatile(t, V, channel, pointRange)
RigolDG1032TMC_loadVolatile ==
    /\ ~gen.tmc.called
    /\ \E t \in TimeVectors, V \in VoltVectors, chan \in 1..2,
          pointRange \in PointRanges, nanCast \in NanCasts,
          f \in 0..(2 + MaxPoints) :
          /\ (Len(V) > 0 /\ seqMax(V) > seqMin(V)) => nanCast = 0
          /\ f <= 2 + Len(V)
          /\ gen' = [t |-> t, V |-> V, channel |-> chan,
                     pointRange |-> pointRange, nanCast |-> nanCast,
                     tmc |-> Called(TMC_loadVolatile(Ctx(<<>>, <<>>), f, t,
                                                     V, chan, pointRange,
                                                     nanCast)),
                     visa |-> NoCall]
    /\ UNCHANGED offGen

\* RigolDG1032.loadVolatile(t, V, channel, pointRange): the caller loads
\* the waveform it loaded into the first generator into the second one.
RigolDG1032_loadVolatile ==
    /\ gen.tmc.called
    /\ ~gen.visa.called
    /\ \E f \in 0..(2 + Len(gen.V)) :
          gen' = [gen EXCEPT
                     !.visa = Called(DG_loadVolatile(Ctx(<<>>, <<>>), f,
                                                     gen.t, gen.V,
                                                     gen.channel,
                                                     gen.pointRange,
                                                     gen.nanCast))]
    /\ UNCHANGED offGen

\* The caller goes on to the next waveform.
GenReturn ==
    /\ gen.visa.called
    /\ gen' = NoGen
    /\ UNCHANGED offGen

---------------------------------------------------------------------------
(* GenerateArb.py: the functions that write into 'wave'.  The array is     *)
(* a function from the steps 0..nSteps-1 to their values, the array of     *)
(* np.zeros being held as the empty function.  A time is j/WaveTimeDen,    *)
(* held by j; a voltage is k/ArbDen, held by k, as for V2b.  The           *)
(* arithmetic is exact where the code's is in floating point.              *)

nSteps == 4096

WaveTimeDen == 2

WaveTimes == 0..WaveTimeDen

WaveVolts == {0, ArbDen}

\* wave = np.zeros(nSteps)
zeros == <<>>

\* wave[k]
waveAt(w, k) == IF w = zeros THEN 0 ELSE w[k]

\* The index a slice bound x stands for in an array of nSteps elements: a
\* negative bound counts from the end, and bounds are clipped.
sliceBound(x) ==
    IF x < 0 THEN (IF x + nSteps < 0 THEN 0 ELSE x + nSteps)
    ELSE IF x > nSteps THEN nSteps ELSE x

\* Step k is one of wave[i:f].
inSlice(k, i, f) == sliceBound(i) <= k /\ k < sliceBound(f)

\* wave[i] = val
setItem(w, i, val) ==
    [k \in 0..(nSteps - 1) |-> IF k = i THEN val ELSE waveAt(w, k)]

\* t2step(t) = int(nSteps*t): int truncates towards zero
t2step(t) ==
    IF t >= 0 THEN (nSteps * t) \div WaveTimeDen
    ELSE 0 - ((nSteps * (0 - t)) \div WaveTimeDen)

\* wave[i:f] = val
fillSlice(w, i, f, val) ==
    LET from == sliceBound(i)
        to == sliceBound(f)
    IN  [k \in 0..(nSteps - 1) |->
            IF from <= k /\ k < to THEN val ELSE waveAt(w, k)]

\* fillV(stepf, Vf): wave[stepf:-1] = V2b(Vf)
fillV(w, stepf, Vf) == fillSlice(w, stepf, 0 - 1, V2b(Vf))

\* A call's outcome: the array and the exception raised ("" if none).
WaveOutcome(w, e) == [wave |-> w, err |-> e]

\* addRampSegment(ti, Vi, tf, Vf): step k of wave[i:f] becomes
\* V2b(Vi + (Vf-Vi)*(k-i)/(f-i)), Vi and Vf being floats.
addRampSegment(w, ti, Vi, tf, Vf) ==
    LET i == t2step(ti)
        f == t2step(tf)
        ramp(k) == roundDiv(Vi * (f - i) + (Vf - Vi) * (k - i),
                            (f - i) * ArbResolution)
        w1 == [k \in 0..(nSteps - 1) |->
                  IF inSlice(k, i, f) THEN ramp(k) ELSE waveAt(w, k)]
    IN  WaveOutcome(fillV(w1, f, Vf), "")

\* addStep(ti, Vi, Vf): an index past the last step raises IndexError, after
\* the assignments before it.
addStep(w, ti, Vi, Vf) ==
    LET i == t2step(ti)
        w1 == setItem(w, i, V2b(Vi))
        w2 == setItem(w1, i + 1, V2b(Vf))
    IN  IF i >= nSteps THEN WaveOutcome(w, "IndexError")
        ELSE IF i + 1 >= nSteps THEN WaveOutcome(w1, "IndexError")
        ELSE WaveOutcome(fillV(w2, i + 1, Vf), "")

\* np.exp(-x) in thousandths for x in [q/4, (q+1)/4): the value at q/4
\* rounded to a thousandth, exact for x = 0.
ExpDen == 1000

ExpTable ==
    <<1000, 779, 607, 472, 368, 287, 223, 174, 135, 105, 82, 64, 50, 39, 30,
      24, 18, 14, 11, 9, 7, 5, 4, 3, 2, 2, 2, 1, 1, 1, 1>>

\* np.exp(-(T[k] - centre)**2 / (2*s**2)) in thousandths
gaussian(k, centre, s) ==
    LET q == (2 * (k - centre) * (k - centre)) \div (s * s)
    IN  IF q + 1 <= Len(ExpTable) THEN ExpTable[q + 1] ELSE 0

\* addGaussian(ti, to, A, sigma, avoidDiscontinuity) for a sigma of at
\* least one step: getV(ti) raises IndexError for a ti past the last step;
\* step k of wave[i:f] becomes V2b(offsetV + A*exp(...)) with offsetV =
\* getV(ti) = wave[i]/bitrange, less A*exp(...) at step i if asked to.
addGaussian(w, ti, to, A, sigma, avoidDiscontinuity) ==
    LET tf == to + (to - ti)
        i == t2step(ti)
        centre == t2step(to)
        f == t2step(tf)
        s == t2step(sigma)
        shift == IF avoidDiscontinuity THEN A * gaussian(i, centre, s) ELSE 0
        pulse(k) ==
            roundDiv(waveAt(w, i) * ArbResolution * ExpDen - shift
                        + A * gaussian(k, centre, s),
                     ArbResolution * ExpDen)
    IN  IF i >= nSteps THEN WaveOutcome(w, "IndexError")
        ELSE WaveOutcome([k \in 0..(nSteps - 1) |->
                            IF inSlice(k, i, f) THEN pulse(k)
                            ELSE waveAt(w, k)], "")

\* The waves of the model are built by at most MaxCalls calls.
MaxCalls == 2

\* The widths of the Gaussians, as times.
Sigmas == {1}

\* No call yet: 'ops' names the calls made since the module was loaded, 'op',
\* 'args' and 'err' are those of the last one.
NoWaveCall == [ops |-> <<>>, op |-> "", args |-> <<>>, err |-> "", n |-> 0]

\* The call 'name' with the arguments 'args' has ended with outcome 'out'.
WaveCalled(name, args, out) ==
    /\ wave' = out.wave
    /\ waveCall' = [ops |-> Append(waveCall.ops, name), op |-> name,
                    args |-> args, err |-> out.err, n |-> waveCall.n + 1]

\* The steps fillV is called with: those of the times, and the last one.
FillSteps == {t2step(t) : t \in WaveTimes} \cup {nSteps - 1}

FillV ==
    /\ waveCall.n < MaxCalls
    /\ \E stepf \in FillSteps, Vf \in WaveVolts :
          WaveCalled("fillV", <<stepf, Vf>>,
                     WaveOutcome(fillV(wave, stepf, Vf), ""))
    /\ UNCHANGED offWave

AddRampSegment ==
    /\ waveCall.n < MaxCalls
    /\ \E ti \in WaveTimes, tf \in WaveTimes, Vi \in WaveVolts,
          Vf \in WaveVolts :
          WaveCalled("addRampSegment", <<ti, Vi, tf, Vf>>,
                     addRampSegment(wave, ti, Vi, tf, Vf))
    /\ UNCHANGED offWave

AddStep ==
    /\ waveCall.n < MaxCalls
    /\ \E ti \in WaveTimes, Vi \in WaveVolts, Vf \in WaveVolts :
          WaveCalled("addStep", <<ti, Vi, Vf>>, addStep(wave, ti, Vi, Vf))
    /\ UNCHANGED offWave

AddGaussian ==
    /\ waveCall.n < MaxCalls
    /\ \E ti \in WaveTimes, to \in WaveTimes, A \in WaveVolts,
          sigma \in Sigmas, avoidDiscontinuity \in BOOLEAN :
          WaveCalled("addGaussian", <<ti, to, A, sigma, avoidDiscontinuity>>,
                     addGaussian(wave, ti, to, A, sigma, avoidDiscontinuity))
    /\ UNCHANGED offWave

\* The module is loaded afresh: wave is all zero again.
WaveReload ==
    /\ waveCall.n > 0
    /\ wave' = zeros
    /\ waveCall' = NoWaveCall
    /\ UNCHANGED offWave

---------------------------------------------------------------------------
(* Wavemeter.py: the class WA1500 and the logging loop.  A line read from  *)
(* the serial link is the sequence of its characters; a frequency is the   *)
(* fraction num/den.                                                       *)

\* The lines the wavemeter answers a query with: nothing before the timeout,
\* readings, flagged readings, the signal messages, and damaged lines.
ReplyLines ==
   {
    <<>>,
    <<"+", "4", "7", "3", ".", "6", "1", ",", "0", "\r", "\n">>,
    <<"~", "4", "7", "3", ".", "6", "1", ",", "0", "\r", "\n">>,
    <<"L", "O", " ", "S", "I", "G", "\r", "\n">>,
    <<"H", "I", " ", "S", "I", "G", "\r", "\n">>,
    <<"~", "L", "O", " ", "S", "I", "G", "\r", "\n">>,
    <<"4", "~", "3", ",", "0", "\r", "\n">>,
    <<"~", "\r", "\n">>,
    <<"4", "7", "3", "\r", "\n">>,
    <<"-", "1", ".", "0", ",", "0", "\r", "\n">>,
    <<"4", ".", "7", ".", "3", ",", "0", "\r", "\n">>,
    <<",", "\r", "\n">>,
    <<".", "5", ",", "0", "\r", "\n">>,
    <<" ", "4", "7", "3", ".", " ", ",", "0", "\r", "\n">>,
    <<"+", "\r", "\n">>,
    <<"4", "7", "3", ".", "6", "1", ",", "~", "\r", "\n">>,
    <<"H", "I", " ", "S", "I", "G", ",", "L", "O", " ", "S", "I", "G", "\r",
      "\n">>
   }

\* sub in s
contains(s, sub) ==
    \E i \in 0..(Len(s) - Len(sub)) : SubSeq(s, i + 1, i + Len(sub)) = sub

\* s.split(',')[0]
firstField(s) ==
    LET commas == {i \in 1..Len(s) : s[i] = ","}
    IN  IF commas = {} THEN s
        ELSE SubSeq(s, 1, (CHOOSE i \in commas : \A j \in commas : i <= j) - 1)

\* x[1:]
dropFirst(x) == SubSeq(x, 2, Len(x))

Whitespace == {" ", "\r", "\n", "\t"}

\* x.strip()
RECURSIVE strip(_)
strip(x) ==
    IF Len(x) = 0 THEN x
    ELSE IF x[1] \in Whitespace THEN strip(SubSeq(x, 2, Len(x)))
    ELSE IF x[Len(x)] \in Whitespace THEN strip(SubSeq(x, 1, Len(x) - 1))
    ELSE x

DigitChars == <<"0", "1", "2", "3", "4", "5", "6", "7", "8", "9">>

IsDigit(ch) == \E d \in 1..Len(DigitChars) : DigitChars[d] = ch

digit(ch) == (CHOOSE d \in 1..Len(DigitChars) : DigitChars[d] = ch) - 1

\* The number a sequence of digits reads as.
RECURSIVE digits(_)
digits(x) ==
    IF Len(x) = 0 THEN 0
    ELSE 10 * digits(SubSeq(x, 1, Len(x) - 1)) + digit(x[Len(x)])

RECURSIVE pow10(_)
pow10(n) == IF n = 0 THEN 1 ELSE 10 * pow10(n - 1)

NoFloat == [ok |-> FALSE, num |-> 0, den |-> 1]

\* float(x), x a sequence of characters, for the decimal notation without
\* exponent (the notation of the wavemeter's lines): white space around
\* the number is ignored, a sign may lead, digits surround at most one
\* point, and at least one digit is needed; anything else is a ValueError
\* (ok = FALSE).
parseFloat(x) ==
    LET y == strip(x)
        signed == Len(y) > 0 /\ y[1] \in {"+", "-"}
        body == IF signed THEN SubSeq(y, 2, Len(y)) ELSE y
        points == {i \in 1..Len(body) : body[i] = "."}
        mantissa == SelectSeq(body, LAMBDA ch : ch # ".")
        frac == IF points = {} THEN 0
                ELSE Len(body) - (CHOOSE i \in points : TRUE)
        sign == IF signed /\ y[1] = "-" THEN 0 - 1 ELSE 1
    IN  IF /\ Cardinality(points) <= 1
           /\ Len(mantissa) > 0
           /\ \A i \in 1..Len(mantissa) : IsDigit(mantissa[i])
        THEN [ok |-> TRUE, num |-> sign * digits(mantissa),
              den |-> pow10(frac)]
        ELSE NoFloat

\* -1.0
MinusOne == [num |-> 0 - 1, den |-> 1]

\* What a call of read_frequency ends with: the pair it returns, or the
\* exception it raises.
Returned(frequency, err_msg) ==
    [raised |-> "", frequency |-> frequency, err_msg |-> err_msg]

Raised(e) == [raised |-> e, frequency |-> MinusOne, err_msg |-> ""]

\* parseReply without the bare except: the ValueError of float reaches the
\* caller.
parseReply_unguarded(s) ==
    LET flagged == parseFloat(dropFirst(firstField(s)))
        plain == parseFloat(firstField(s))
    IN  IF contains(s, <<"L", "O", " ", "S", "I", "G">>)
        THEN Returned(MinusOne, "low signal")
        ELSE IF contains(s, <<"H", "I", " ", "S", "I", "G">>)
        THEN Returned(MinusOne, "high signal")
        ELSE IF contains(s, <<"~">>)
        THEN IF flagged.ok
             THEN Returned([num |-> flagged.num, den |-> flagged.den],
                           "possibly multimode")
             ELSE Raised("ValueError")
        ELSE IF plain.ok
        THEN Returned([num |-> plain.num, den |-> plain.den], "ok")
        ELSE Raised("ValueError")

\* The body of the try statement of read_frequency for the line s that
\* readline returned, a ValueError of float being caught by the bare except.
parseReply(s) ==
    LET flagged == parseFloat(dropFirst(firstField(s)))
        plain == parseFloat(firstField(s))
    IN  IF contains(s, <<"L", "O", " ", "S", "I", "G">>)
        THEN Returned(MinusOne, "low signal")
        ELSE IF contains(s, <<"H", "I", " ", "S", "I", "G">>)
        THEN Returned(MinusOne, "high signal")
        ELSE IF contains(s, <<"~">>)
        THEN IF flagged.ok
             THEN Returned([num |-> flagged.num, den |-> flagged.den],
                           "possibly multimode")
             ELSE Returned(MinusOne, "unknown error")
        ELSE IF plain.ok
        THEN Returned([num |-> plain.num, den |-> plain.den], "ok")
        ELSE Returned(MinusOne, "unknown error")

\* What the serial link does to an operation: it completes ("ok") or it
\* raises.
LinkEvents == {"ok", "SerialException", "KeyboardInterrupt"}

\* WA1500.read_frequency(): the write and flushInput before the try raise to
\* the caller; inside the try KeyboardInterrupt is raised again and every
\* other exception gives (-1.0, 'unknown error').
read_frequency(written, readline, s) ==
    IF written # "ok" THEN Raised(written)
    ELSE IF readline = "KeyboardInterrupt" THEN Raised(readline)
    ELSE IF readline # "ok" THEN Returned(MinusOne, "unknown error")
    ELSE parseReply(s)

\* The logging loop opens at most MaxLinks serial links.
MaxLinks == 3

NoCallYet == [called |-> FALSE, written |-> "", readline |-> "", s |-> <<>>,
              out |-> Raised("")]

\* Line 72 has run: no link was opened ('links' tells of each link opened
\* whether it is open), the name 'wavemeter' is not bound (0), no WA1500 is
\* under construction ('device' is the link of the one that is).
NoWm == [pc |-> "while", done |-> FALSE, wavemeter_defined |-> FALSE,
         wavemeter |-> 0, device |-> 0, links |-> <<>>, uncaught |-> "",
         call |-> NoCallYet]

\* WA1500.close(): self.device.close()
close(links, device) == [links EXCEPT ![device] = FALSE]

\* while not done
WmWhile ==
    /\ wm.pc = "while"
    /\ wm' = [wm EXCEPT !.pc = IF wm.done THEN "exit" ELSE "Serial"]
    /\ UNCHANGED offWm

\* WA1500.__init__: self.device = serial.Serial(...)
WmSerial ==
    /\ wm.pc = "Serial"
    /\ Len(wm.links) < MaxLinks
    /\ \E e \in LinkEvents :
          wm' = IF e = "ok"
                THEN [wm EXCEPT !.links = Append(@, TRUE),
                                !.device = Len(wm.links) + 1,
                                !.pc = "flush"]
                ELSE [wm EXCEPT !.pc = e]
    /\ UNCHANGED offWm

\* WA1500.__init__: self.device.flush(), then the assignment of the new
\* object to 'wavemeter' and wavemeter_defined = True.
WmFlush ==
    /\ wm.pc = "flush"
    /\ \E e \in {"ok", "KeyboardInterrupt"} :
          wm' = IF e = "ok"
                THEN [wm EXCEPT !.wavemeter = wm.device, !.device = 0,
                                !.wavemeter_defined = TRUE,
                                !.pc = "read_frequency"]
                ELSE [wm EXCEPT !.device = 0, !.pc = e]
    /\ UNCHANGED offWm

\* freq, err_msg = wavemeter.read_frequency()
WmReadFrequency ==
    /\ wm.pc = "read_frequency"
    /\ \E written \in LinkEvents, readline \in LinkEvents, s \in ReplyLines :
          /\ written # "ok" => (readline = "ok" /\ s = <<>>)
          /\ readline # "ok" => s = <<>>
          /\ LET out == read_frequency(written, readline, s)
             IN  wm' = [wm EXCEPT
                          !.call = [called |-> TRUE, written |-> written,
                                    readline |-> readline, s |-> s,
                                    out |-> out],
                          !.pc = IF out.raised = "" THEN "sleep"
                                 ELSE out.raised]
    /\ UNCHANGED offWm

\* time.sleep(0.5)
WmSleep ==
    /\ wm.pc = "sleep"
    /\ \E e \in {"ok", "KeyboardInterrupt"} :
          wm' = [wm EXCEPT !.call = NoCallYet,
                           !.pc = IF e = "ok" THEN "read_frequency" ELSE e]
    /\ UNCHANGED offWm

\* except KeyboardInterrupt: print wavemeter.close(); done = True.  The name
\* 'wavemeter' is not bound before the first WA1500 is constructed.
WmKeyboardInterrupt ==
    /\ wm.pc = "KeyboardInterrupt"
    /\ wm' = IF wm.wavemeter = 0
             THEN [wm EXCEPT !.call = NoCallYet, !.uncaught = "NameError",
                             !.pc = "exit"]
             ELSE [wm EXCEPT !.call = NoCallYet,
                             !.links = close(wm.links, wm.wavemeter),
                             !.done = TRUE, !.pc = "while"]
    /\ UNCHANGED offWm

\* except SerialException: wavemeter.close() if wavemeter_defined, then
\* time.sleep(1.0), which a KeyboardInterrupt ends outside any try.
WmSerialException ==
    /\ wm.pc = "SerialException"
    /\ \E e \in {"ok", "KeyboardInterrupt"} :
          LET closed == IF wm.wavemeter_defined
                        THEN close(wm.links, wm.wavemeter) ELSE wm.links
          IN  wm' = [wm EXCEPT !.call = NoCallYet, !.links = closed,
                               !.wavemeter_defined = FALSE,
                               !.uncaught = IF e = "ok" THEN "" ELSE e,
                               !.pc = IF e = "ok" THEN "while" ELSE "exit"]
    /\ UNCHANGED offWm

---------------------------------------------------------------------------
(* The specification *)

\* Before __init__: no attribute is assigned; the instrument is in any of
\* its configurations.
Init ==
    /\ resource \in [mode : AcqModes, depth : MemDepths,
                     tscale : TScaleReplies, toffs : TOffsReplies]
    /\ self = [nChannels |-> Unset, nPoints |-> Unset, acqMode |-> "",
               memDepth |-> "", tScale |-> Unset, tOffs |-> Unset]
    /\ pc = "new"
    /\ channel = "1"
    /\ bothChannels = FALSE
    /\ stopping = TRUE
    /\ tData = Unset
    /\ data = Unset
    /\ data2 = Unset
    /\ log = <<>>
    /\ err = ""
    /\ raisedAt = ""
    /\ waveData = NoShape
    /\ caught = ""
    /\ nDevs = Unset
    /\ timeVec = NoTimeVec
    /\ rawdata = <<>>
    /\ vertical = NoVertical
    /\ Vdata = <<>>
    /\ display = NoDisplay
    /\ arb = NoArb
    /\ gen = NoGen
    /\ wave = zeros
    /\ waveCall = NoWaveCall
    /\ wm = NoWm

Next ==
    \/ RigolDS1102_init
    \/ readWaveform
    \/ \E ch \in ChannelArgs, stop \in BOOLEAN : RW_stop(ch, stop)
    \/ RW_readTrace
    \/ RW_readTrace2
    \/ RW_run
    \/ RW_decode
    \/ Return
    \/ GetNumChannels
    \/ Reset
    \/ \E n \in ChannelCounts : setNumChannels(n)
    \/ \E m \in AcqModes : setAcqMode(m)
    \/ \E d \in MemDepths : setMemDepth(d)
    \/ \E s \in TScaleReplies : setTimeScale(s)

Spec == Init /\ [][Next]_vars

\* GenerateArb.py on its own: no scope is involved, its state stays as
\* constructed.
InitArb ==
    /\ Init
    /\ pc = "new"
    /\ resource = [mode |-> "NORMAL", depth |-> "NORMAL",
                   tscale |-> "1.000e-04", toffs |-> "1.000e-04"]

NextArb ==
    \/ ArbV2b
    \/ Arbb2V
    \/ ArbReturn

SpecArb == InitArb /\ [][NextArb]_vars

\* The two generators on their own.
NextGen ==
    \/ RigolDG1032TMC_loadVolatile
    \/ RigolDG1032_loadVolatile
    \/ GenReturn

SpecGen == InitArb /\ [][NextGen]_vars

\* The functions of GenerateArb.py that write into 'wave'.
NextWave ==
    \/ FillV
    \/ AddRampSegment
    \/ AddStep
    \/ AddGaussian
    \/ WaveReload

SpecWave == InitArb /\ [][NextWave]_vars

\* Wavemeter.py run as a program.
NextWm ==
    \/ WmWhile
    \/ WmSerial
    \/ WmFlush
    \/ WmReadFrequency
    \/ WmSleep
    \/ WmKeyboardInterrupt
    \/ WmSerialException

SpecWm == InitArb /\ [][NextWm]_vars

---------------------------------------------------------------------------
(* What the log of the current call shows *)

\* A call of readWaveform is under way or has just ended.
InReadWaveform ==
    pc \notin {"new", "constructed", "idle", "gotNumChannels", "didReset"}

Wrote(command) ==
    \E i \in 1..Len(log) : log[i].op = "write" /\ log[i].cmd = command

WavQueries == {":WAV:DATA? CHAN1", ":WAV:DATA? CHAN2"}

AcqCommands == {":STOP", ":RUN"} \cup WavQueries

\* The call is past getTimeVec: readWaveform's own statements have begun.
PastResolution == InReadWaveform /\ raisedAt # "getTimeVec"

\* The call is past the statement that decides on ':STOP'.
PastStop == PastResolution /\ pc # "stop" /\ raisedAt # "stop"

\* The call has ended, by a return or by an exception.
Ended == pc \in {"returned", "raised"}

\* The stop / query / read / resume operations of the call, in the order
\* they completed: the acquisition commands written and the waveform reads
\* (a reply to a query is read with nRead = 100, a waveform with nPoints).
IsAcq(e) == IF e.op = "write" THEN e.cmd \in AcqCommands ELSE e.n # 100

AcqEvents == SelectSeq(log, IsAcq)

AcqNames == [i \in 1..Len(AcqEvents) |->
                IF AcqEvents[i].op = "write" THEN AcqEvents[i].cmd ELSE "read"]

IsPrefix(s, t) == Len(s) <= Len(t) /\ \A i \in 1..Len(s) : s[i] = t[i]

\* The six queries of getNPoints, getTScale and getTOffset and the three of
\* getNDevs are 14 transport operations: with all of them in the log the
\* configuration is known to getNDevs.
ConfigurationKnown == InReadWaveform /\ Len(log) >= 14

---------------------------------------------------------------------------
(* C1: in readWaveform a failure to resolve the sample count or the        *)
(* division count (no table row for the configuration, or an exception     *)
(* during getTimeVec) ends the call at getTimeVec: the call raises there   *)
(* and no ':STOP', ':WAV:DATA?' or ':RUN' has been written.                *)

C1_HasRow ==
    /\ self.nChannels # Unset
    /\ dataPointSwitch(resource.mode, resource.depth, self.nChannels) # Unset
    /\ \/ resource.mode = "NORMAL"
       \/ float(resource.tscale)
              \in DOMAIN devDict(resource.depth, self.nChannels)

C1_ResolutionAbortsBeforeStop ==
    (InReadWaveform /\ (raisedAt = "getTimeVec" \/ ~C1_HasRow))
        => /\ pc = "raised"
           /\ raisedAt = "getTimeVec"
           /\ \A cmd \in AcqCommands : ~Wrote(cmd)

C1_Witness ==
    /\ pc = "raised"
    /\ raisedAt = "getTimeVec"
    /\ err = "UnboundLocalError"
    /\ resource.mode = "RAW"
    /\ self.nChannels = 1
    /\ Len(log) = 14

---------------------------------------------------------------------------
(* C2: when readWaveform has written ':STOP' and the call ends, by a       *)
(* return or by an exception of a waveform read, ':RUN' has been written   *)
(* after the ':STOP'.                                                      *)

C2_StopIsFollowedByRun ==
    (Ended /\ Wrote(":STOP") /\ raisedAt # "run")
        => \E i, j \in 1..Len(AcqNames) :
              i < j /\ AcqNames[i] = ":STOP" /\ AcqNames[j] = ":RUN"

---------------------------------------------------------------------------
(* C3: readWaveform writes ':RUN' only after it has written ':STOP' in the *)
(* same call, and a call that wrote ':STOP' and returned has written       *)
(* ':RUN'.                                                                 *)

C3_RunIffStop ==
    /\ InReadWaveform => (Wrote(":RUN") => Wrote(":STOP"))
    /\ pc = "returned" => (Wrote(":STOP") => Wrote(":RUN"))

---------------------------------------------------------------------------
(* C4: readWaveform writes ':STOP' exactly when the sample count exceeds   *)
(* 610 and stopping is set; the ':STOP' precedes every ':WAV:DATA?'; with  *)
(* a sample count of 610 neither ':STOP' nor ':RUN' is written.            *)

C4_StopExactlyWhenNeeded ==
    /\ PastStop => (Wrote(":STOP") <=> (self.nPoints > 610 /\ stopping))
    /\ InReadWaveform => (Wrote(":STOP") => (self.nPoints > 610 /\ stopping))
    /\ \A i, j \in 1..Len(AcqNames) :
          (AcqNames[i] = ":STOP" /\ AcqNames[j] \in WavQueries) => i < j
    /\ (PastResolution /\ self.nPoints = 610)
          => (~Wrote(":STOP") /\ ~Wrote(":RUN"))

C4_Witness ==
    /\ pc = "returned"
    /\ self.nPoints > 610
    /\ stopping
    /\ AcqNames[1] = ":STOP"
    /\ AcqNames[2] \in WavQueries

---------------------------------------------------------------------------
(* C5: in a 'BOTH' read the operations come in the order stop (if any),    *)
(* channel-1 query, read, channel-2 query, read, resume (if any); a call   *)
(* that returned has done all of them.                                     *)

C5_Order ==
    (IF Wrote(":STOP") THEN <<":STOP">> ELSE <<>>)
        \o <<":WAV:DATA? CHAN1", "read", ":WAV:DATA? CHAN2", "read">>
        \o (IF Wrote(":RUN") THEN <<":RUN">> ELSE <<>>)

C5_BothChannelsInOrder ==
    (PastStop /\ bothChannels)
        => /\ IsPrefix(AcqNames, C5_Order)
           /\ pc = "returned" => AcqNames = C5_Order

C5_Witness ==
    /\ pc = "returned"
    /\ bothChannels
    /\ AcqNames = <<":STOP", ":WAV:DATA? CHAN1", "read",
                    ":WAV:DATA? CHAN2", "read", ":RUN">>

---------------------------------------------------------------------------
(* C6: getNPoints, for a (mode, depth, channel count) triple that matches  *)
(* none of the five rows of the table, raises UnsupportedConfiguration and *)
(* leaves no sample count of an earlier configuration in self.nPoints.     *)

C6_Row(mode, depth, n) ==
    \/ mode = "NORMAL"
    \/ mode = "RAW" /\ depth \in {"NORMAL", "LONG"} /\ n \in {1, 2}

\* getNPoints has read both replies: the triple is known to it.
C6_TripleKnown == InReadWaveform /\ Len(log) >= 4 /\ self.nChannels # Unset

C6_UnmatchedTripleIsAnError ==
    (C6_TripleKnown /\ ~C6_Row(resource.mode, resource.depth, self.nChannels))
        => /\ pc = "raised"
           /\ raisedAt = "getTimeVec"
           /\ err = "UnsupportedConfiguration"
           /\ self.nPoints = Unset

---------------------------------------------------------------------------
(* C7: getNDevs in RAW mode, for a time/division that the selected table   *)
(* does not list, raises UnsupportedConfiguration; no division count is    *)
(* returned for it.                                                        *)

C7_Unlisted ==
    /\ resource.mode = "RAW"
    /\ self.nChannels \in {1, 2}
    /\ float(resource.tscale)
           \notin DOMAIN devDict(resource.depth, self.nChannels)

C7_UnlistedTimeDivIsAnError ==
    (ConfigurationKnown /\ C7_Unlisted)
        => /\ pc = "raised"
           /\ raisedAt = "getTimeVec"
           /\ tData = Unset
           /\ err = "UnsupportedConfiguration"

---------------------------------------------------------------------------
(* C8: with RAW mode, LONG depth, one channel and a time/division of 3e-3  *)
(* the read raises UnsupportedConfiguration, and once the configuration is *)
(* known no further transport operation is done: the log ends with the     *)
(* reply to getNDevs' last query.                                          *)

C8_NoTransportAfterConfiguration ==
    (/\ ConfigurationKnown
     /\ resource.mode = "RAW"
     /\ resource.depth = "LONG"
     /\ self.nChannels = 1
     /\ float(resource.tscale) = 3000000)
        => /\ pc = "raised"
           /\ Len(log) = 14
           /\ log[13] = [op |-> "write", cmd |-> ":ACQ:MEMDEPTH?", n |-> 0]
           /\ log[14].op = "read"
           /\ err = "UnsupportedConfiguration"

---------------------------------------------------------------------------
(* C9: a waveform read that returned fewer bytes than the sample count     *)
(* raises TruncatedReadError in the read step, so that no trace shorter    *)
(* than the sample count less its header is ever held or returned.         *)

C9_Short(n) == n # Unset /\ n < self.nPoints - 10

C9_ShortReadIsAnError ==
    (PastResolution /\ (C9_Short(data) \/ C9_Short(data2)))
        => /\ pc = "raised"
           /\ raisedAt \in {"readTrace", "readTrace2"}
           /\ err = "TruncatedReadError"

---------------------------------------------------------------------------
(* C10: a trace returned by readWaveform has as many rows as the sample    *)
(* count of the active (mode, depth, channel count) configuration less the *)
(* 10 header bytes, one of 600, 8192, 16384, 524288 and 1048576, and its   *)
(* time column and each voltage column have that length.                   *)

C10_SampleCount(mode, depth, n) ==
    CASE mode = "NORMAL" -> 610
      [] mode # "NORMAL" /\ depth = "NORMAL" /\ n = 2 -> 8202
      [] mode # "NORMAL" /\ depth = "NORMAL" /\ n = 1 -> 16394
      [] mode # "NORMAL" /\ depth = "LONG" /\ n = 2 -> 524298
      [] mode # "NORMAL" /\ depth = "LONG" /\ n = 1 -> 1048586
      [] OTHER -> 0

C10_TraceLength ==
    pc = "returned"
        => /\ waveData.rows
                = C10_SampleCount(resource.mode, resource.depth,
                                  self.nChannels) - 10
           /\ waveData.rows \in {600, 8192, 16384, 524288, 1048576}
           /\ waveData.cols = IF bothChannels THEN 3 ELSE 2
           /\ tData = waveData.rows
           /\ data = waveData.rows
           /\ bothChannels => data2 = waveData.rows

C10_Witness ==
    /\ pc = "returned"
    /\ bothChannels
    /\ waveData = [rows |-> 524288, cols |-> 3]

---------------------------------------------------------------------------
(* C12: when the scope is in acquisition mode NORMAL and the channel count *)
(* is set, whatever the memory depth, the channel count and the time per   *)
(* division are, getTimeVec raises only on a transport failure, getNPoints *)
(* stores 610 and getNDevs returns 12 divisions.                           *)

C12_NormalModeIs610And12 ==
    (InReadWaveform /\ resource.mode = "NORMAL" /\ self.nChannels # Unset)
        => /\ raisedAt = "getTimeVec" => err = "OSError"
           /\ PastResolution => (self.nPoints = 610 /\ nDevs = 2 * 12)

C12_Witness ==
    /\ PastResolution
    /\ resource.mode = "NORMAL"
    /\ resource.depth = "LONG"
    /\ self.nChannels = 1
    /\ float(resource.tscale) = 3000000
    /\ self.nPoints = 610
    /\ nDevs = 2 * 12

---------------------------------------------------------------------------
(* C13: when the scope is in acquisition mode RAW, getNPoints stores 8202  *)
(* for depth NORMAL and 2 channels, 16394 for NORMAL and 1, 524298 for     *)
(* LONG and 2, 1048586 for LONG and 1; and the attribute nPoints never     *)
(* holds a value other than these four and 610.                            *)

C13_RawCount(depth, n) ==
    CASE depth = "NORMAL" /\ n = 2 -> 8202
      [] depth = "NORMAL" /\ n = 1 -> 16394
      [] depth = "LONG" /\ n = 2 -> 524298
      [] depth = "LONG" /\ n = 1 -> 1048586

C13_RawSampleCounts ==
    /\ (PastResolution /\ resource.mode = "RAW")
          => self.nPoints = C13_RawCount(resource.depth, self.nChannels)
    /\ self.nPoints # Unset
          => self.nPoints \in {610, 8202, 16394, 524298, 1048586}

C13_Witness ==
    /\ PastResolution
    /\ resource.mode = "RAW"
    /\ resource.depth = "LONG"
    /\ self.nChannels = 1
    /\ self.nPoints = 1048586

---------------------------------------------------------------------------
(* C14: in mode RAW with depth LONG, one channel and 100 us per division,  *)
(* getNDevs returns 52.5 divisions and getTimeVec raises only on a         *)
(* transport failure.                                                      *)

C14_Configuration ==
    /\ resource.mode = "RAW"
    /\ resource.depth = "LONG"
    /\ self.nChannels = 1
    /\ float(resource.tscale) = 100000

C14_HalfDivisionIsReturned ==
    (InReadWaveform /\ C14_Configuration)
        => /\ raisedAt = "getTimeVec" => err = "OSError"
           /\ PastResolution => nDevs = 105

C14_Witness ==
    /\ pc = "returned"
    /\ C14_Configuration
    /\ nDevs = 105
    /\ waveData.rows = 1048576

---------------------------------------------------------------------------
(* C11: a read of BOTH channels returns rows of exactly three columns,     *)
(* the time, channel 1 and channel 2: the second column is the sample of   *)
(* channel 1 decoded with the offset and scale that channel 1 replied, the *)
(* third the sample of channel 2 decoded with channel 2's, and the offset  *)
(* and scale queries written are those of channel 1, then of channel 2.    *)

C11_VerticalQueries ==
    SelectSeq(log, LAMBDA e : e.op = "write"
                              /\ e.cmd \in {":CHAN1:OFFS?", ":CHAN1:SCAL?",
                                            ":CHAN2:OFFS?", ":CHAN2:SCAL?"})

C11_Decoded(b, reply) == ((255 - b) - 130) * reply.scale - reply.offs * 25

C11_BothChannelsDecodedSeparately ==
    (pc = "returned" /\ bothChannels)
        => /\ waveData.cols = 3
           /\ Len(Vdata) = 2
           /\ Vdata[1] = C11_Decoded(rawdata[1], vertical["1"])
           /\ Vdata[2] = C11_Decoded(rawdata[2], vertical["2"])
           /\ [i \in 1..4 |-> C11_VerticalQueries[i].cmd]
                 = <<":CHAN1:OFFS?", ":CHAN1:SCAL?",
                     ":CHAN2:OFFS?", ":CHAN2:SCAL?">>

C11_Witness ==
    /\ pc = "returned"
    /\ bothChannels
    /\ waveData.cols = 3
    /\ rawdata = <<0, 255>>
    /\ vertical["1"] = [offs |-> 0, scale |-> 1000]
    /\ vertical["2"] = [offs |-> 500, scale |-> 2000]
    /\ Vdata = <<125000, -272500>>

---------------------------------------------------------------------------
(* C15: rescaleToVolts turns the byte b of a trace, 0..255, into the       *)
(* voltage ((255 - b) - 130 - offset/scale*25)/25*scale for the offset and *)
(* scale the channel replied; 25 times that is                             *)
(* ((255 - b) - 130)*scale - offset*25.  For b = 130 and offset 0 the      *)
(* voltage is -0.2*scale, 25 times which is -5*scale.                      *)

C15_Volts25(b, offset, scale) == ((255 - b) - 130) * scale - offset * 25

C15_Channel == IF bothChannels THEN "2" ELSE channel

C15_Sample == rawdata[Len(rawdata)]

C15_DecodingFormula ==
    pc = "returned"
        => /\ C15_Sample \in 0..255
           /\ Vdata[Len(Vdata)] = C15_Volts25(C15_Sample,
                                              vertical[C15_Channel].offs,
                                              vertical[C15_Channel].scale)
           /\ (C15_Sample = 130 /\ vertical[C15_Channel].offs = 0)
                 => Vdata[Len(Vdata)] = -5 * vertical[C15_Channel].scale

C15_Witness ==
    /\ pc = "returned"
    /\ ~bothChannels
    /\ channel = "2"
    /\ rawdata = <<130>>
    /\ vertical["2"] = [offs |-> 0, scale |-> 1000]
    /\ Vdata = <<-5000>>

---------------------------------------------------------------------------
(* C16: the time vector of getTimeVec has time[i] = -((T*divs)/2) + i*dt   *)
(* + time_offset with dt = (T*divs)/sample_count, where sample_count is    *)
(* the stored nPoints less 10, time_offset the stored time offset, divs    *)
(* the division count getNDevs returned and T the stored time per          *)
(* division, which is the value the division count was looked up with.     *)
(* In the unit T/(4*sample_count), with divs doubled, -((T*divs)/2) is     *)
(* -(divs2*sample_count) and dt is 2*divs2.                                *)

C16_SampleCount == self.nPoints - 10

C16_Indices == {0, 1, 600, C16_SampleCount - 1}

C16_Time(i) == -(nDevs * C16_SampleCount) + i * (2 * nDevs)

C16_TimeVectorFormula ==
    PastResolution
        => /\ timeVec.unitNum = self.tScale
           /\ timeVec.unitDen = 4 * C16_SampleCount
           /\ timeVec.offs = self.tOffs
           /\ \A i \in C16_Indices :
                 timeVec.start + i * timeVec.step = C16_Time(i)
           /\ self.tScale = float(resource.tscale)
           /\ self.acqMode # "NORMAL"
                 => nDevs = devDict(self.memDepth, self.nChannels)[self.tScale]

C16_Witness ==
    /\ pc = "returned"
    /\ self.nPoints = 16394
    /\ self.tScale = 100000
    /\ self.tOffs = 100000
    /\ nDevs = 2 * 66
    /\ timeVec = [start |-> -(132 * 16384), step |-> 264, unitNum |-> 100000,
                   unitDen |-> 4 * 16384, offs |-> 100000]

---------------------------------------------------------------------------
(* C17: for a voltage v in [0, 1], V2b(v) is an integer in 0..16383 and    *)
(* b2V(V2b(v)) is round(v*16383)/16383, which differs from v by at most    *)
(* 1/16383.  With v = k/ArbDen and b2V(V2b(v)) = num/den the difference    *)
(* is |num*ArbDen - den*k| / (den*ArbDen).                                 *)

C17_Abs(x) == IF x < 0 THEN -x ELSE x

\* b is an integer nearest to 16383*k/ArbDen
C17_IsRounded(b, k) == 2 * C17_Abs(b * ArbDen - 16383 * k) <= ArbDen

C17_RoundTripWithinOneStep ==
    /\ arb.b # Unset => (arb.b \in 0..16383 /\ C17_IsRounded(arb.b, arb.k))
    /\ arb.V.num # Unset
          => /\ arb.V.den = 16383
             /\ C17_IsRounded(arb.V.num, arb.k)
             /\ C17_Abs(arb.V.num * ArbDen - arb.V.den * arb.k) <= ArbDen

C17_Witness ==
    /\ arb.k = ArbDen \div 2
    /\ arb.b = 8192
    /\ arb.V = [num |-> 8192, den |-> 16383]

---------------------------------------------------------------------------
(* C18: the configuration getters (getTimeVec with getNPoints, getAcqMode, *)
(* getMemDepth, getTScale, getTOffset and getNDevs; getVOffset and         *)
(* getVScale in rescaleToVolts; getNumChannels) write nothing to the scope *)
(* but queries, commands ending in '?', and leave the configuration of the *)
(* scope as it is: they write no ':STOP', no ':RUN' and no setting.        *)

C18_Queries ==
    {":WAV:POINTS:MODE?", ":ACQ:MEMDEPTH?", ":TIM:SCAL?", ":TIM:OFFS?",
     ":CHAN1:OFFS?", ":CHAN1:SCAL?", ":CHAN2:OFFS?", ":CHAN2:SCAL?",
     ":CHAN1:DISP?", ":CHAN2:DISP?"}

\* A step of getTimeVec or getNumChannels, or of the two rescaleToVolts.
C18_GetterStep == pc \in {"idle", "decode"} /\ pc' # pc

C18_GettersOnlyQuery ==
    [][C18_GetterStep
          => /\ resource' = resource
             /\ IsPrefix(log, log')
             /\ \A i \in (Len(log) + 1)..Len(log') :
                   log'[i].op = "write" => log'[i].cmd \in C18_Queries]_vars

C18_Witness ==
    /\ pc = "gotNumChannels"
    /\ err = ""
    /\ self.nChannels = 2
    /\ Len(log) = 4
    /\ \A i \in {1, 3} : log[i].cmd = ":CHAN1:DISP?"

---------------------------------------------------------------------------
(* C19: a reply to ':WAV:POINTS:MODE?' other than NORMAL or RAW is         *)
(* rejected with ParseError: it is never stored in self.acqMode, and       *)
(* no call of getTimeVec gets past it to a sample count and a division     *)
(* count.                                                                  *)

C19_UnexpectedReplyIsRejected ==
    /\ self.acqMode \in {"", "NORMAL", "RAW"}
    /\ (InReadWaveform /\ resource.mode \notin {"NORMAL", "RAW"})
          => /\ pc = "raised"
             /\ raisedAt = "getTimeVec"
             /\ err \in {"ParseError", "OSError"}

---------------------------------------------------------------------------
(* C20: every error is surfaced to the caller: no exception of the         *)
(* identity query of __init__, of a configuration query, of a table lookup *)
(* or of a waveform read is caught by an except clause that prints and     *)
(* goes on.                                                                *)

C20_NoErrorIsSwallowed == caught = ""

---------------------------------------------------------------------------
(* C21: getNumChannels sets nChannels to the number of the scope's two     *)
(* channels that are displayed: 2 when both are ON, 0 when both are OFF,   *)
(* 1 when one is ON and the other OFF.                                     *)

C21_Displayed == {ch \in {"ch1", "ch2"} : display[ch] = "ON"}

C21_CountsDisplayedChannels ==
    (pc = "gotNumChannels" /\ err = "")
        => self.nChannels = Cardinality(C21_Displayed)

---------------------------------------------------------------------------
(* What the calls of loadVolatile wrote *)

\* The calls of loadVolatile made for the current waveform.
Calls == {call \in {gen.tmc, gen.visa} : call.called}

\* The ':DATA:VAL VOLATILE' commands of a call, in the order written.
ValCommands(call) ==
    SelectSeq(call.log, LAMBDA e : e.cmd.cmd = ":DATA:VAL VOLATILE,")

\* V has two different voltages.
Spread == Len(gen.V) > 0 /\ seqMax(gen.V) > seqMin(gen.V)

---------------------------------------------------------------------------
(* C22: loadVolatile writes one command at a time, in this order: the      *)
(* ':APPL:ARB' command, the ':TRACE:DATA:POIN VOLATILE,<n>' command, then  *)
(* ':DATA:VAL VOLATILE,<k>,<val>' for k = 1, 2, ... in ascending order     *)
(* with val the k-th sample quantized (for a V of two different voltages,  *)
(* an integer nearest to (V[k]-VMin)/(VMax-VMin)*pointRange); a call that  *)
(* returns has written exactly one such command for each k in 1..len(V).   *)

C22_IsQuantized(val, k) ==
    Spread
        => 2 * C17_Abs(val * (seqMax(gen.V) - seqMin(gen.V))
                       - (gen.V[k] - seqMin(gen.V)) * gen.pointRange)
              <= seqMax(gen.V) - seqMin(gen.V)

C22_SequentialUpload ==
    \A call \in Calls :
        /\ Len(call.log) >= 1 => call.log[1].cmd.cmd = ":APPL:ARB "
        /\ Len(call.log) >= 2
              => call.log[2].cmd.cmd = ":TRACE:DATA:POIN VOLATILE,"
        /\ \A i \in 3..Len(call.log) :
              /\ call.log[i].op = "write"
              /\ call.log[i].cmd.cmd = ":DATA:VAL VOLATILE,"
              /\ call.log[i].cmd.args[1] = i - 2
              /\ i - 2 <= Len(gen.V)
              /\ C22_IsQuantized(call.log[i].cmd.args[2], i - 2)
        /\ (call.err = "" => Len(call.log) = 2 + Len(gen.V))

C22_Witness ==
    /\ gen.V = <<0, 500, 1000>>
    /\ gen.pointRange = 16383
    /\ gen.tmc.err = ""
    /\ gen.visa.called
    /\ gen.visa.err = ""
    /\ ValCommands(gen.tmc)[2].cmd.args = <<2, 8192>>
    /\ ValCommands(gen.visa)[3].cmd.args = <<3, 16383>>

---------------------------------------------------------------------------
(* C23: called with the same t, V, channel and pointRange, the loadVolatile *)
(* of RigolDG1032TMC and that of RigolDG1032 write the same commands in    *)
(* the same order (unless a write of one of them fails), raise the same    *)
(* exception if any, and print the same warning.                           *)

C23_LoadersAreEquivalent ==
    (gen.visa.called /\ gen.tmc.err # "OSError" /\ gen.visa.err # "OSError")
        => /\ gen.tmc.log = gen.visa.log
           /\ gen.tmc.err = gen.visa.err
           /\ gen.tmc.warned = gen.visa.warned

C23_Witness ==
    /\ gen.visa.called
    /\ gen.tmc.err = ""
    /\ gen.visa.err = ""
    /\ gen.channel = 2
    /\ gen.t = [len |-> 3, dt |-> 50]
    /\ gen.V = <<1000, 0, 500>>
    /\ Len(gen.tmc.log) = 5
    /\ gen.tmc.log[1].cmd.args = <<20000, 1000, 500>>
    /\ gen.tmc.log = gen.visa.log

---------------------------------------------------------------------------
(* C27: for a V of two different voltages every value uploaded is an       *)
(* integer in 0..pointRange, the value of a smallest sample is 0, that of  *)
(* a largest sample is pointRange, and V[i] <= V[j] implies that the value *)
(* of sample i is at most that of sample j.                                *)

C27_Val(call, k) == ValCommands(call)[k].cmd.args[2]

C27_UploadedValuesAreScaled ==
    \A call \in Calls :
        Spread
          => \A i \in 1..Len(ValCommands(call)) :
                /\ C27_Val(call, i) \in 0..gen.pointRange
                /\ gen.V[i] = seqMin(gen.V) => C27_Val(call, i) = 0
                /\ gen.V[i] = seqMax(gen.V)
                      => C27_Val(call, i) = gen.pointRange
                /\ \A j \in 1..Len(ValCommands(call)) :
                      gen.V[i] <= gen.V[j]
                          => C27_Val(call, i) <= C27_Val(call, j)

C27_Witness ==
    /\ gen.V = <<500, 1000, 500>>
    /\ gen.pointRange = 255
    /\ gen.tmc.err = ""
    /\ Len(ValCommands(gen.tmc)) = 3
    /\ C27_Val(gen.tmc, 1) = 0
    /\ C27_Val(gen.tmc, 2) = 255
    /\ C27_Val(gen.tmc, 3) = 0

---------------------------------------------------------------------------
(* C28: a call of loadVolatile with len(t) # len(V), where t has at least  *)
(* two times, the first two different, and V at least one voltage, prints  *)
(* the warning and goes on: it raises nothing but a transport failure,     *)
(* and when it returns it has declared len(t) points and uploaded len(V)   *)
(* values.  As first stated, for every t and V with len(t) # len(V), the   *)
(* claim fails: the call raises before it writes when V is empty, when t   *)
(* has fewer than two times or when its first two times are equal.         *)

C28_Mismatch == gen.t.len # Len(gen.V)

C28_MismatchIsOnlyWarned ==
    \A call \in Calls :
        (C28_Mismatch /\ gen.t.len >= 2 /\ gen.t.dt # 0 /\ Len(gen.V) >= 1)
          => /\ call.warned
             /\ call.err \in {"", "OSError"}
             /\ call.err = ""
                   => /\ call.log[2].cmd.args = <<gen.t.len>>
                      /\ Len(ValCommands(call)) = Len(gen.V)
                      /\ Len(ValCommands(call)) # call.log[2].cmd.args[1]

C28_Witness ==
    /\ gen.t = [len |-> 3, dt |-> 1]
    /\ gen.V = <<0, 1000>>
    /\ gen.visa.called
    /\ gen.visa.warned
    /\ gen.visa.err = ""
    /\ gen.visa.log[2].cmd.args = <<3>>
    /\ Len(ValCommands(gen.visa)) = 2

C28_AnyMismatchIsOnlyWarned ==
    \A call \in Calls :
        C28_Mismatch => (call.warned /\ call.err \in {"", "OSError"})

---------------------------------------------------------------------------
(* C24: after any sequence of calls of addRampSegment, addStep and         *)
(* addGaussian with times, voltages and amplitudes in [0, 1], starting     *)
(* from the all-zero wave, every element of wave is in 0..16383.           *)

C24_Steps == 0..(nSteps - 1)

C24_Builders == {"addRampSegment", "addStep", "addGaussian"}

C24_WaveStaysInRange ==
    (\A c \in 1..Len(waveCall.ops) : waveCall.ops[c] \in C24_Builders)
        => \A k \in C24_Steps : waveAt(wave, k) \in 0..bitrange

---------------------------------------------------------------------------
(* C25: a call fillV(stepf, Vf) leaves every wave[k] with stepf <= k <=    *)
(* 4095, the last element included, equal to V2b(Vf), and every wave[k]    *)
(* with k < stepf as it was.                                               *)

C25_FillVReturned ==
    /\ waveCall'.op = "fillV"
    /\ waveCall'.n = waveCall.n + 1

C25_FillVFillsToTheEnd ==
    [][C25_FillVReturned
          => \A k \in 0..(nSteps - 1) :
                IF k >= waveCall'.args[1]
                THEN waveAt(wave', k) = V2b(waveCall'.args[2])
                ELSE waveAt(wave', k) = waveAt(wave, k)]_vars

---------------------------------------------------------------------------
(* C26: a call of RigolDS1102.reset() writes the reset command '*RST' to   *)
(* the instrument exactly once, as one call of the transport's sendReset   *)
(* does.                                                                   *)

C26_ResetWrites ==
    SelectSeq(log, LAMBDA e : e.op = "write" /\ e.cmd = "*RST")

C26_ResetWritesRST ==
    pc = "didReset"
        => /\ Len(C26_ResetWrites) = 1
           /\ log = sendReset(Ctx(self, <<>>), 0).log

---------------------------------------------------------------------------
(* C29: once the query is written, a call of WA1500.read_frequency raises  *)
(* nothing for any line read (an empty line after a timeout and a line     *)
(* that cannot be parsed included) nor for a failed readline, except that  *)
(* a KeyboardInterrupt is raised again; it returns a pair (frequency,      *)
(* err_msg) with err_msg one of 'ok', 'low signal', 'high signal',         *)
(* 'possibly multimode', 'unknown error', and the frequency is -1.0 when   *)
(* err_msg is 'low signal', 'high signal' or 'unknown error'.              *)

C29_ErrMsgs ==
    {"ok", "low signal", "high signal", "possibly multimode", "unknown error"}

C29_ReadFrequencyAlwaysReturns ==
    (wm.call.called /\ wm.call.written = "ok")
        => IF wm.call.readline = "KeyboardInterrupt"
           THEN wm.call.out.raised = "KeyboardInterrupt"
           ELSE /\ wm.call.out.raised = ""
                /\ wm.call.out.err_msg \in C29_ErrMsgs
                /\ wm.call.out.err_msg
                       \in {"low signal", "high signal", "unknown error"}
                     => wm.call.out.frequency = MinusOne

\* A line that float() rejects has been answered with 'unknown error'.
C29_Witness ==
    /\ wm.call.called
    /\ wm.call.written = "ok"
    /\ wm.call.readline = "ok"
    /\ wm.call.s = <<"4", ".", "7", ".", "3", ",", "0", "\r", "\n">>
    /\ wm.call.out = Returned(MinusOne, "unknown error")

---------------------------------------------------------------------------
(* C30: in the logging loop of Wavemeter.py, however SerialException and   *)
(* KeyboardInterrupt interleave with its steps, at most one serial link is *)
(* open at any time and none is open once the program has terminated.      *)

C30_Open == {i \in 1..Len(wm.links) : wm.links[i]}

C30_LinksAreClosed ==
    /\ Cardinality(C30_Open) <= 1
    /\ wm.pc = "exit" => C30_Open = {}

=============================================================================
